---- MODULE Spec2Model ----
(***************************************************************************)
(* A model of the BPE subsystem of wvec (src/src/bpe): the Vocabulary      *)
(* store, the trainer, the encoder and decoder, and the binary file        *)
(* format.                                                                 *)
(*                                                                         *)
(* A string is the sequence of its Unicode scalar values (code points);   *)
(* a file is a sequence of bytes.  An Option is a sequence of length 0     *)
(* (None) or 1 (Some).                                                     *)
(***************************************************************************)
EXTENDS Integers, Sequences, FiniteSets, TLC

\* ------------------------------------------------------------------ bounds

\* The longest pre-token sequence handed to train.
MaxPretokens == 2
\* The largest target_max_vocab_size handed to train.
MaxTarget == 10
\* A target_max_vocab_size no training of the corpora below reaches.
LargeTarget == 20
\* The longest text handed to encode.
MaxTextLen == 3
\* The most tokens a client adds with add_token after new().
MaxApiTokens == 2
\* The most rules a client adds with add_pair after new().
MaxApiPairs == 1
\* The longest id sequence a client hands to decode directly.
MaxIdsLen == 2
\* How many times train is run on the same input (SpecTwice).
MaxRuns == 2
\* The longest working sequence handed to count_pair_freqs (SpecCount).
MaxSeqLen == 3
\* The largest frequency handed to count_pair_freqs (SpecCount).
MaxFreq == 3
\* The longest working sequence handed to apply_merge (SpecMerge).
MaxMergeLen == 4

\* ------------------------------------------------------------------ inputs

\* The characters of the texts handed to encode: 'a' and 'b'.
Alphabet == {97, 98}

\* The pre-tokens of the corpora: "", "a", "ab", "aab", "\u{e9}a" (U+00E9 is
\* two bytes in UTF-8).
Words == {<<>>, <<97>>, <<97, 98>>, <<97, 97, 98>>, <<233, 97>>}

RECURSIVE SeqsUpTo(_, _)
\* Every sequence over S of length at most n.
SeqsUpTo(S, n) ==
  IF n = 0 THEN {<<>>}
  ELSE LET shorter == SeqsUpTo(S, n - 1)
       IN  shorter \cup {Append(s, x) : s \in shorter, x \in S}

\* The concrete scenarios of the tests: "ab" three times.
Scenarios == {<<<<97, 98>>, <<97, 98>>, <<97, 98>>>>}

\* The corpus of test_train_merges_frequent_pairs: "aab" three times and
\* "aac" once.
FrequentPairs ==
  <<<<97, 97, 98>>, <<97, 97, 98>>, <<97, 97, 98>>, <<97, 97, 99>>>>

\* The corpus of one pre-token that reads as a special token: "[UNK]".
SpecialText == <<<<91, 85, 78, 75, 93>>>>

\* The corpus of test_train_single_char_words: "a", "b", "c".
SingleChars == <<<<97>>, <<98>>, <<99>>>>

Corpora ==
  SeqsUpTo(Words, MaxPretokens) \cup Scenarios
    \cup {FrequentPairs, SpecialText, SingleChars}

Targets == 0..MaxTarget \cup {LargeTarget}

Texts == SeqsUpTo(Alphabet, MaxTextLen)

None == <<>>
Some(x) == <<x>>

\* ------------------------------------------------------------------ types.rs

UNK_TOKEN == <<91, 85, 78, 75, 93>>  \* "[UNK]"
PAD_TOKEN == <<91, 80, 65, 68, 93>>  \* "[PAD]"
BOS_TOKEN == <<91, 66, 79, 83, 93>>  \* "[BOS]"
EOS_TOKEN == <<91, 69, 79, 83, 93>>  \* "[EOS]"

UNK_ID == 0
PAD_ID == 1
BOS_ID == 2
EOS_ID == 3
FIRST_REGULAR_ID == 4

\* BpePair::new
BpePair(left, right, id) == [left |-> left, right |-> right, id |-> id]

\* ------------------------------------------------------------------ vocab.rs

\* The struct literal of Vocabulary::new: an empty map, an empty vector of
\* tokens, an empty vector of rules.
VocabularyFields ==
  [token_to_id |-> <<>>, id_to_token |-> <<>>, pairs |-> <<>>]

\* Vocabulary::len
len(v) == Len(v.id_to_token)

\* The mutant of add_token: it forgets the duplicate check.
add_token_always_push(v, token) ==
  LET id == Len(v.id_to_token)
  IN  [vocab |-> [v EXCEPT !.token_to_id = (token :> id) @@ v.token_to_id,
                           !.id_to_token = Append(v.id_to_token, token)],
       id |-> id]

\* The mutant of add_token: the id is taken after the push.
add_token_id_after_push(v, token) ==
  IF token \in DOMAIN v.token_to_id
  THEN [vocab |-> v, id |-> v.token_to_id[token]]
  ELSE LET id == Len(v.id_to_token) + 1
       IN  [vocab |-> [v EXCEPT !.token_to_id = (token :> id) @@ v.token_to_id,
                                !.id_to_token = Append(v.id_to_token, token)],
            id |-> id]

\* The mutant of add_token: a registered token is registered again and its
\* old id returned.
add_token_push_duplicate(v, token) ==
  IF token \in DOMAIN v.token_to_id
  THEN [vocab |-> [v EXCEPT !.id_to_token = Append(v.id_to_token, token)],
        id |-> v.token_to_id[token]]
  ELSE LET id == Len(v.id_to_token)
       IN  [vocab |-> [v EXCEPT !.token_to_id = (token :> id) @@ v.token_to_id,
                                !.id_to_token = Append(v.id_to_token, token)],
            id |-> id]

\* Vocabulary::add_token: the updated vocabulary and the returned id.
add_token(v, token) ==
  IF token \in DOMAIN v.token_to_id
  THEN [vocab |-> v, id |-> v.token_to_id[token]]
  ELSE LET id == Len(v.id_to_token)
       IN  [vocab |-> [v EXCEPT !.token_to_id = (token :> id) @@ v.token_to_id,
                                !.id_to_token = Append(v.id_to_token, token)],
            id |-> id]

\* Vocabulary::new: the four special tokens registered in order.
new ==
  LET v1 == add_token(VocabularyFields, UNK_TOKEN).vocab
      v2 == add_token(v1, PAD_TOKEN).vocab
      v3 == add_token(v2, BOS_TOKEN).vocab
  IN  add_token(v3, EOS_TOKEN).vocab

\* The mutant of get_id: a token that is not registered gets PAD_ID.
get_id_unknown_as_pad(v, token) ==
  IF token \in DOMAIN v.token_to_id THEN v.token_to_id[token] ELSE PAD_ID

\* Vocabulary::get_id
get_id(v, token) ==
  IF token \in DOMAIN v.token_to_id THEN v.token_to_id[token] ELSE UNK_ID

\* Vocabulary::get_id_opt
get_id_opt(v, token) ==
  IF token \in DOMAIN v.token_to_id THEN Some(v.token_to_id[token]) ELSE None

\* Vocabulary::get_token; ids count from 0, the sequence from 1.
get_token(v, id) ==
  IF id >= 0 /\ id < Len(v.id_to_token) THEN Some(v.id_to_token[id + 1]) ELSE None

\* The mutant of add_pair: a rule whose id is not registered is dropped.
add_pair_validating(v, left, right, id) ==
  IF id < Len(v.id_to_token)
  THEN [v EXCEPT !.pairs = Append(v.pairs, BpePair(left, right, id))]
  ELSE v

\* Vocabulary::add_pair
add_pair(v, left, right, id) ==
  [v EXCEPT !.pairs = Append(v.pairs, BpePair(left, right, id))]

\* Vocabulary::pairs
pairs(v) == v.pairs

\* Vocabulary::pairs_count
pairs_count(v) == Len(v.pairs)

\* ------------------------------------------------------------------ train.rs

RECURSIVE count_pretoken_freqs_stop_at_empty(_, _, _)
\* The mutant of count_pretoken_freqs_from: an empty pre-token ends the loop.
count_pretoken_freqs_stop_at_empty(pretokens, i, counts) ==
  IF i > Len(pretokens) THEN counts
  ELSE LET pretoken == pretokens[i]
       IN  IF pretoken # <<>>
           THEN count_pretoken_freqs_stop_at_empty(pretokens, i + 1,
                  IF pretoken \in DOMAIN counts
                  THEN [counts EXCEPT ![pretoken] = @ + 1]
                  ELSE (pretoken :> 1) @@ counts)
           ELSE counts

RECURSIVE count_pretoken_freqs_from(_, _, _)
\* The loop of count_pretoken_freqs from position i (from 1) on: an empty
\* pre-token is skipped, any other has its entry incremented.
count_pretoken_freqs_from(pretokens, i, counts) ==
  IF i > Len(pretokens) THEN counts
  ELSE LET pretoken == pretokens[i]
       IN  IF pretoken # <<>>
           THEN count_pretoken_freqs_from(pretokens, i + 1,
                  IF pretoken \in DOMAIN counts
                  THEN [counts EXCEPT ![pretoken] = @ + 1]
                  ELSE (pretoken :> 1) @@ counts)
           ELSE count_pretoken_freqs_from(pretokens, i + 1, counts)

\* count_pretoken_freqs: the map from each distinct pre-token to its count.
count_pretoken_freqs(pretokens) == count_pretoken_freqs_from(pretokens, 1, <<>>)

RECURSIVE Orders(_)
\* The orders in which a HashMap with the keys S can be iterated: the
\* sequences holding each key once.
Orders(S) ==
  IF S = {} THEN {<<>>}
  ELSE UNION {{<<x>> \o o : o \in Orders(S \ {x})} : x \in S}

RECURSIVE chars_to_ids_reversed(_, _, _, _)
\* The mutant of chars_to_ids: the ids are collected last character first.
chars_to_ids_reversed(v, pretoken, i, acc) ==
  IF i > Len(pretoken) THEN [vocab |-> v, token_ids |-> acc]
  ELSE LET r == add_token(v, <<pretoken[i]>>)
       IN  chars_to_ids_reversed(r.vocab, pretoken, i + 1, <<r.id>> \o acc)

RECURSIVE chars_to_ids(_, _, _, _)
\* pretoken.chars().map(|ch| vocab.add_token(ch.to_string())).collect(),
\* from character i on: the vocabulary and the ids collected.
chars_to_ids(v, pretoken, i, acc) ==
  IF i > Len(pretoken) THEN [vocab |-> v, token_ids |-> acc]
  ELSE LET r == add_token(v, <<pretoken[i]>>)
       IN  chars_to_ids(r.vocab, pretoken, i + 1, Append(acc, r.id))

RECURSIVE init_char_sequences_from(_, _, _, _, _, _)
\* The loop of init_char_sequences over the map's entries in the iteration
\* order `order`, from entry k on.
init_char_sequences_from(pretoken_freqs, order, k, v, seqs, fs) ==
  IF k > Len(order) THEN [vocab |-> v, sequences |-> seqs, freqs |-> fs]
  ELSE LET pretoken == order[k]
           r == chars_to_ids(v, pretoken, 1, <<>>)
       IN  IF r.token_ids # <<>>
           THEN init_char_sequences_from(pretoken_freqs, order, k + 1, r.vocab,
                  Append(seqs, r.token_ids), Append(fs, pretoken_freqs[pretoken]))
           ELSE init_char_sequences_from(pretoken_freqs, order, k + 1, r.vocab,
                  seqs, fs)

\* init_char_sequences, the map iterated in the order `order`.
init_char_sequences(pretoken_freqs, v, order) ==
  init_char_sequences_from(pretoken_freqs, order, 1, v, <<>>, <<>>)

RECURSIVE count_pair_freqs_overwriting(_, _, _, _, _)
\* The mutant of count_pair_freqs_from: the entry is set to the frequency,
\* not incremented by it.
count_pair_freqs_overwriting(seqs, fs, k, i, counts) ==
  IF k > Len(seqs) \/ k > Len(fs) THEN counts
  ELSE IF i + 1 > Len(seqs[k])
       THEN count_pair_freqs_overwriting(seqs, fs, k + 1, 1, counts)
       ELSE LET pair == <<seqs[k][i], seqs[k][i + 1]>>
            IN  count_pair_freqs_overwriting(seqs, fs, k, i + 1,
                  (pair :> fs[k]) @@ counts)

RECURSIVE count_pair_freqs_from(_, _, _, _, _)
\* The loops of count_pair_freqs from window i (from 1) of sequence k on.
count_pair_freqs_from(seqs, fs, k, i, counts) ==
  IF k > Len(seqs) \/ k > Len(fs) THEN counts
  ELSE IF i + 1 > Len(seqs[k])
       THEN count_pair_freqs_from(seqs, fs, k + 1, 1, counts)
       ELSE LET pair == <<seqs[k][i], seqs[k][i + 1]>>
            IN  count_pair_freqs_from(seqs, fs, k, i + 1,
                  IF pair \in DOMAIN counts
                  THEN [counts EXCEPT ![pair] = @ + fs[k]]
                  ELSE (pair :> fs[k]) @@ counts)

\* count_pair_freqs: the map from each adjacent pair to its accumulated count.
count_pair_freqs(seqs, fs) == count_pair_freqs_from(seqs, fs, 1, 1, <<>>)

\* The mutant of find_most_frequent_pair: min_by_key for max_by_key.
least_frequent_pairs(pair_counts) ==
  {p \in DOMAIN pair_counts :
     \A q \in DOMAIN pair_counts : pair_counts[q] >= pair_counts[p]}

\* find_most_frequent_pair: the pairs max_by_key can return, which is the
\* last maximal entry in the map's unspecified iteration order.
find_most_frequent_pair(pair_counts) ==
  {p \in DOMAIN pair_counts :
     \A q \in DOMAIN pair_counts : pair_counts[q] <= pair_counts[p]}

\* The mutant of merge_tokens: the merged text is right + left.
merge_tokens_swapped(v, left, right) ==
  LET left_str == get_token(v, left)[1]
      right_str == get_token(v, right)[1]
      r == add_token(v, right_str \o left_str)
  IN  [vocab |-> add_pair(r.vocab, left, right, r.id), id |-> r.id]

\* merge_tokens: the vocabulary with the merged token and the rule, and the
\* merged id.
merge_tokens(v, left, right) ==
  LET left_str == get_token(v, left)[1]
      right_str == get_token(v, right)[1]
      merged_str == left_str \o right_str
      r == add_token(v, merged_str)
  IN  [vocab |-> add_pair(r.vocab, left, right, r.id), id |-> r.id]

\* seq with its element at position i (from 1) removed: Vec::remove.
Remove(seq, i) == SubSeq(seq, 1, i - 1) \o SubSeq(seq, i + 1, Len(seq))

RECURSIVE train_merge_scan_keeping_right(_, _, _, _, _)
\* The mutant of train_merge_scan: seq[i + 1] is not removed.
train_merge_scan_keeping_right(seq, i, left, right, merged_id) ==
  IF i + 1 < Len(seq)
  THEN IF seq[i + 1] = left /\ seq[i + 2] = right
       THEN train_merge_scan_keeping_right([seq EXCEPT ![i + 1] = merged_id],
                                           i + 1, left, right, merged_id)
       ELSE train_merge_scan_keeping_right(seq, i + 1, left, right, merged_id)
  ELSE seq

RECURSIVE train_merge_scan_advancing(_, _, _, _, _)
\* The mutant of train_merge_scan: i is incremented after a replacement too.
train_merge_scan_advancing(seq, i, left, right, merged_id) ==
  IF i + 1 < Len(seq)
  THEN IF seq[i + 1] = left /\ seq[i + 2] = right
       THEN train_merge_scan_advancing(
              Remove([seq EXCEPT ![i + 1] = merged_id], i + 2),
              i + 1, left, right, merged_id)
       ELSE train_merge_scan_advancing(seq, i + 1, left, right, merged_id)
  ELSE seq

RECURSIVE train_merge_scan(_, _, _, _, _)
\* The while loop of train.rs's apply_merge on one sequence, at index i
\* (from 0).
train_merge_scan(seq, i, left, right, merged_id) ==
  IF i + 1 < Len(seq)
  THEN IF seq[i + 1] = left /\ seq[i + 2] = right
       THEN train_merge_scan(Remove([seq EXCEPT ![i + 1] = merged_id], i + 2),
                             i, left, right, merged_id)
       ELSE train_merge_scan(seq, i + 1, left, right, merged_id)
  ELSE seq

\* train.rs's apply_merge: every sequence rewritten.
apply_merge(seqs, left, right, merged_id) ==
  [k \in DOMAIN seqs |-> train_merge_scan(seqs[k], 0, left, right, merged_id)]

\* The mutant of train's loop condition: one iteration too many.
loop_condition_off_by_one(v, target_max_vocab_size) ==
  len(v) <= target_max_vocab_size

\* The condition of train's while loop.
loop_condition(v, target_max_vocab_size) == len(v) < target_max_vocab_size

\* ------------------------------------------------------------------ encode.rs

RECURSIVE encode_apply_merge_remove_left(_, _, _, _, _)
\* The mutant of encode.rs's apply_merge: ids.remove(i) for ids.remove(i + 1).
encode_apply_merge_remove_left(ids, i, left, right, merged_id) ==
  IF i + 1 < Len(ids)
  THEN IF ids[i + 1] = left /\ ids[i + 2] = right
       THEN encode_apply_merge_remove_left(
              Remove([ids EXCEPT ![i + 1] = merged_id], i + 1),
              i, left, right, merged_id)
       ELSE encode_apply_merge_remove_left(ids, i + 1, left, right, merged_id)
  ELSE ids

RECURSIVE encode_apply_merge_skipping(_, _, _, _, _)
\* The mutant of encode.rs's apply_merge: i += 2 where there is no match.
encode_apply_merge_skipping(ids, i, left, right, merged_id) ==
  IF i + 1 < Len(ids)
  THEN IF ids[i + 1] = left /\ ids[i + 2] = right
       THEN encode_apply_merge_skipping(
              Remove([ids EXCEPT ![i + 1] = merged_id], i + 2),
              i, left, right, merged_id)
       ELSE encode_apply_merge_skipping(ids, i + 2, left, right, merged_id)
  ELSE ids

RECURSIVE encode_apply_merge(_, _, _, _, _)
\* encode.rs's apply_merge: its while loop at index i (from 0).
encode_apply_merge(ids, i, left, right, merged_id) ==
  IF i + 1 < Len(ids)
  THEN IF ids[i + 1] = left /\ ids[i + 2] = right
       THEN encode_apply_merge(Remove([ids EXCEPT ![i + 1] = merged_id], i + 2),
                               i, left, right, merged_id)
       ELSE encode_apply_merge(ids, i + 1, left, right, merged_id)
  ELSE ids

RECURSIVE encode_pairs_from_last_first(_, _, _)
\* The mutant of encode_pairs_from: the rules are applied from the last one
\* learned to the first.
encode_pairs_from_last_first(v, k, ids) ==
  IF k > Len(pairs(v)) THEN ids
  ELSE LET pair == pairs(v)[Len(pairs(v)) + 1 - k]
       IN  encode_pairs_from_last_first(v, k + 1,
             encode_apply_merge(ids, 0, pair.left, pair.right, pair.id))

RECURSIVE encode_pairs_from(_, _, _)
\* The loop of encode over vocab.pairs(), from rule k on.
encode_pairs_from(v, k, ids) ==
  IF k > Len(pairs(v)) THEN ids
  ELSE LET pair == pairs(v)[k]
       IN  encode_pairs_from(v, k + 1,
             encode_apply_merge(ids, 0, pair.left, pair.right, pair.id))

\* The mutant of encode: the empty text is encoded as one unknown id.
encode_empty_as_unknown(v, pretoken) ==
  IF pretoken = <<>> THEN <<UNK_ID>>
  ELSE encode_pairs_from(v, 1,
         [i \in 1..Len(pretoken) |-> get_id(v, <<pretoken[i]>>)])

\* encode
encode(v, pretoken) ==
  IF pretoken = <<>> THEN <<>>
  ELSE encode_pairs_from(v, 1,
         [i \in 1..Len(pretoken) |-> get_id(v, <<pretoken[i]>>)])

\* ------------------------------------------------------------------ decode.rs

RECURSIVE decode_from_skip_unknown(_, _, _, _)
\* The mutant of decode_from: an id that is not registered adds nothing.
decode_from_skip_unknown(v, ids, k, result) ==
  IF k > Len(ids) THEN result
  ELSE LET token == get_token(v, ids[k])
       IN  decode_from_skip_unknown(v, ids, k + 1,
             IF token # None THEN result \o token[1] ELSE result)

RECURSIVE decode_from(_, _, _, _)
\* The loop of decode from id k on.
decode_from(v, ids, k, result) ==
  IF k > Len(ids) THEN result
  ELSE LET token == get_token(v, ids[k])
       IN  decode_from(v, ids, k + 1,
             IF token # None THEN result \o token[1] ELSE result \o UNK_TOKEN)

\* decode
decode(v, ids) == decode_from(v, ids, 1, <<>>)

\* ------------------------------------------------------------------ io.rs

\* The mutant of MAGIC: "bpe\0".
MAGIC_lowercase == <<98, 112, 101, 0>>

\* b"BPE\0"
MAGIC == <<66, 80, 69, 0>>

VERSION == 1

\* 8 * 1024 * 1024, the longest token read_string accepts.
MAX_TOKEN_LEN == 8388608

\* u32::to_le_bytes
to_le_bytes(value) ==
  <<value % 256, (value \div 256) % 256, (value \div 65536) % 256,
    (value \div 16777216) % 256>>

\* u32::from_le_bytes
from_le_bytes(buf) ==
  buf[1] + (256 * buf[2]) + (65536 * buf[3]) + (16777216 * buf[4])

\* The UTF-8 bytes of one character: what str::as_bytes holds for it.
utf8_char(ch) ==
  IF ch < 128 THEN <<ch>>
  ELSE IF ch < 2048 THEN <<192 + (ch \div 64), 128 + (ch % 64)>>
  ELSE IF ch < 65536
       THEN <<224 + (ch \div 4096), 128 + ((ch \div 64) % 64), 128 + (ch % 64)>>
       ELSE <<240 + (ch \div 262144), 128 + ((ch \div 4096) % 64),
              128 + ((ch \div 64) % 64), 128 + (ch % 64)>>

RECURSIVE as_bytes(_)
\* str::as_bytes: the UTF-8 bytes of a string.
as_bytes(str) ==
  IF str = <<>> THEN <<>> ELSE utf8_char(Head(str)) \o as_bytes(Tail(str))

IsCont(byte) == byte >= 128 /\ byte < 192

RECURSIVE from_utf8(_, _, _)
\* String::from_utf8 from byte i (from 1) on: Some(the string), or None
\* when the bytes are not valid UTF-8.
from_utf8(buf, i, acc) ==
  IF i > Len(buf) THEN Some(acc)
  ELSE LET b1 == buf[i]
           n == Len(buf) - i
       IN  IF b1 < 128 THEN from_utf8(buf, i + 1, Append(acc, b1))
           ELSE IF b1 >= 194 /\ b1 < 224 /\ n >= 1 /\ IsCont(buf[i + 1])
           THEN from_utf8(buf, i + 2,
                  Append(acc, ((b1 - 192) * 64) + (buf[i + 1] - 128)))
           ELSE IF b1 >= 224 /\ b1 < 240 /\ n >= 2
                   /\ IsCont(buf[i + 1]) /\ IsCont(buf[i + 2])
                   /\ (b1 = 224 => buf[i + 1] >= 160)
                   /\ (b1 = 237 => buf[i + 1] < 160)
           THEN from_utf8(buf, i + 3,
                  Append(acc, ((b1 - 224) * 4096) + ((buf[i + 1] - 128) * 64)
                              + (buf[i + 2] - 128)))
           ELSE IF b1 >= 240 /\ b1 < 245 /\ n >= 3
                   /\ IsCont(buf[i + 1]) /\ IsCont(buf[i + 2]) /\ IsCont(buf[i + 3])
                   /\ (b1 = 240 => buf[i + 1] >= 144)
                   /\ (b1 = 244 => buf[i + 1] < 144)
           THEN from_utf8(buf, i + 4,
                  Append(acc, ((b1 - 240) * 262144) + ((buf[i + 1] - 128) * 4096)
                              + ((buf[i + 2] - 128) * 64) + (buf[i + 3] - 128)))
           ELSE None

\* write_u32
write_u32(writer, value) == writer \o to_le_bytes(value)

\* The mutant of write_string: the length written counts characters.
write_string_char_count(writer, str) ==
  write_u32(writer, Len(str)) \o as_bytes(str)

\* write_string: the byte length, then the bytes.
write_string(writer, str) ==
  LET bytes == as_bytes(str)
  IN  write_u32(writer, Len(bytes)) \o bytes

RECURSIVE save_tokens_from(_, _, _)
\* The loop of save over the ids, from id on.
save_tokens_from(v, id, writer) ==
  IF id >= len(v) THEN writer
  ELSE LET token == IF get_token(v, id) # None THEN get_token(v, id)[1] ELSE <<>>
       IN  save_tokens_from(v, id + 1, write_string(writer, token))

RECURSIVE save_pairs_from_id_first(_, _, _)
\* The mutant of save_pairs_from: a rule is written as id, left, right.
save_pairs_from_id_first(v, k, writer) ==
  IF k > Len(pairs(v)) THEN writer
  ELSE LET pair == pairs(v)[k]
       IN  save_pairs_from_id_first(v, k + 1,
             write_u32(write_u32(write_u32(writer, pair.id), pair.left), pair.right))

RECURSIVE save_pairs_from(_, _, _)
\* The loop of save over the rules, from rule k (from 1) on.
save_pairs_from(v, k, writer) ==
  IF k > Len(pairs(v)) THEN writer
  ELSE LET pair == pairs(v)[k]
       IN  save_pairs_from(v, k + 1,
             write_u32(write_u32(write_u32(writer, pair.left), pair.right), pair.id))

\* save: the bytes of the file it writes, the filesystem taking every write.
save(v) ==
  LET header == write_u32(write_u32(write_u32(MAGIC, VERSION), len(v)),
                          pairs_count(v))
  IN  save_pairs_from(v, 1, save_tokens_from(v, 0, header))

\* An io::Result: Ok(value), or Err(what) with the reader where it stopped.
Ok(value, pos) == [ok |-> TRUE, value |-> value, pos |-> pos]
Err(what, pos) == [ok |-> FALSE, err |-> what, pos |-> pos]

\* read_exact of n bytes with `pos` bytes of the file already read.
read_exact(bytes, pos, n) ==
  IF pos + n <= Len(bytes)
  THEN Ok(SubSeq(bytes, pos + 1, pos + n), pos + n)
  ELSE Err("UnexpectedEof", pos)

\* read_u32
read_u32(bytes, pos) ==
  LET buf == read_exact(bytes, pos, 4)
  IN  IF buf.ok THEN Ok(from_le_bytes(buf.value), buf.pos) ELSE buf

\* The mutant of read_string: no limit on the length.
read_string_unguarded(bytes, pos) ==
  LET length == read_u32(bytes, pos)
  IN  IF ~length.ok THEN length
      ELSE LET buf == read_exact(bytes, length.pos, length.value)
           IN  IF ~buf.ok THEN buf
               ELSE LET str == from_utf8(buf.value, 1, <<>>)
                    IN  IF str = None THEN Err("invalid utf-8", buf.pos)
                        ELSE Ok(str[1], buf.pos)

\* read_string
read_string(bytes, pos) ==
  LET length == read_u32(bytes, pos)
  IN  IF ~length.ok THEN length
      ELSE IF length.value > MAX_TOKEN_LEN THEN Err("token too long", length.pos)
      ELSE LET buf == read_exact(bytes, length.pos, length.value)
           IN  IF ~buf.ok THEN buf
               ELSE LET str == from_utf8(buf.value, 1, <<>>)
                    IN  IF str = None THEN Err("invalid utf-8", buf.pos)
                        ELSE Ok(str[1], buf.pos)

\* Vocabulary::empty, which load starts from: no tokens and no rules.
empty == VocabularyFields

RECURSIVE load_tokens_stopping_at_error(_, _, _, _)
\* The mutant of load_tokens: a token that cannot be read ends the loop.
load_tokens_stopping_at_error(bytes, pos, left, v) ==
  IF left = 0 THEN Ok(v, pos)
  ELSE LET token == read_string(bytes, pos)
       IN  IF ~token.ok THEN Ok(v, pos)
           ELSE load_tokens_stopping_at_error(bytes, token.pos, left - 1,
                                              add_token(v, token.value).vocab)

RECURSIVE load_tokens(_, _, _, _)
\* The loop of load over the vocab_size tokens, `left` of them to read.
load_tokens(bytes, pos, left, v) ==
  IF left = 0 THEN Ok(v, pos)
  ELSE LET token == read_string(bytes, pos)
       IN  IF ~token.ok THEN token
           ELSE load_tokens(bytes, token.pos, left - 1,
                            add_token(v, token.value).vocab)

RECURSIVE load_pairs(_, _, _, _)
\* The loop of load over the pairs_count rules, `left` of them to read.
load_pairs(bytes, pos, left, v) ==
  IF left = 0 THEN Ok(v, pos)
  ELSE LET l == read_u32(bytes, pos)
       IN  IF ~l.ok THEN l
           ELSE LET r == read_u32(bytes, l.pos)
                IN  IF ~r.ok THEN r
                    ELSE LET id == read_u32(bytes, r.pos)
                         IN  IF ~id.ok THEN id
                             ELSE load_pairs(bytes, id.pos, left - 1,
                                             add_pair(v, l.value, r.value, id.value))

\* load of a file holding `bytes`.
load_bytes(bytes) ==
  LET magic == read_exact(bytes, 0, 4)
  IN  IF ~magic.ok THEN magic
      ELSE IF magic.value # MAGIC THEN Err("invalid magic bytes", magic.pos)
      ELSE LET version == read_u32(bytes, magic.pos)
      IN  IF ~version.ok THEN version
      ELSE IF version.value # VERSION THEN Err("unsupported version", version.pos)
      ELSE LET vocab_size == read_u32(bytes, version.pos)
      IN  IF ~vocab_size.ok THEN vocab_size
      ELSE LET pairs_count_ == read_u32(bytes, vocab_size.pos)
      IN  IF ~pairs_count_.ok THEN pairs_count_
      ELSE LET tokens == load_tokens(bytes, pairs_count_.pos, vocab_size.value, empty)
      IN  IF ~tokens.ok THEN tokens
      ELSE load_pairs(bytes, tokens.pos, pairs_count_.value, tokens.value)

\* load: File::open fails when there is no file at the path.
load(f) == IF f = None THEN Err("NotFound", 0) ELSE load_bytes(f[1])

\* ------------------------------------------------------------------ state

VARIABLES
  vocab,      \* the Vocabulary being built
  pc,         \* "init", "api" (a client of new()), "loop", "done" (train)
  pretokens,  \* train's input
  target,     \* train's target_max_vocab_size
  sequences,  \* train's working sequences
  freqs,      \* train's frequency of each working sequence
  last,       \* the last call made: its name, argument and return value
  runs,       \* how many times train has been called on this input
  returned,   \* the vocabulary the previous run of train returned, if any
  text,       \* the text last handed to encode, if any
  ids,        \* the ids last returned by encode or handed to decode, if any
  decoded,    \* the text last returned by decode, if any
  file,       \* the file at the path, if any: its bytes and who wrote it
  loaded,     \* what load last returned, if it was called
  command,    \* the CLI command whose run is executing, if any
  native      \* the process-wide native model, as the command has used it

vars == <<vocab, pc, pretokens, target, sequences, freqs, last, runs, returned,
          text, ids, decoded, file, loaded, command, native>>

\* No CLI command is running.
NoCommand == [name |-> "none", n |-> 0, vocab_size |-> 0, i |-> 0,
              result |-> "none"]

\* The native model before any command has touched it: not created by the
\* command, wvec_model_free not called.
NoModel == [created |-> FALSE, frees |-> 0]

\* What train and the Vocabulary's methods leave alone: the client's values,
\* the file, and the CLI and its native model.
client == <<text, ids, decoded, file, loaded, command, native>>

Call(op, arg, ret) == [op |-> op, arg |-> arg, ret |-> ret]

Init ==
  /\ vocab = new
  /\ pc = "init"
  /\ pretokens = <<>>
  /\ target = 0
  /\ sequences = <<>>
  /\ freqs = <<>>
  /\ last = Call("new", <<>>, <<>>)
  /\ runs = 0
  /\ returned = None
  /\ text = None
  /\ ids = None
  /\ decoded = None
  /\ file = None
  /\ loaded = None
  /\ command = NoCommand
  /\ native = NoModel

\* The tokens a client adds: "a", "b", "ab", "[UNK]".
ApiTokens == {<<97>>, <<98>>, <<97, 98>>, UNK_TOKEN}

\* The rules a client adds: one of registered ids, one whose id is never
\* registered, one that rewrites to its own left id.
ApiPairs == {<<4, 5, 6>>, <<5, 4, 99>>, <<0, 4, 0>>}

\* The ids a client hands to decode: registered ones and one that never is.
DecodeIds == {0, 4, 999}

\* A client calls vocab.add_token(token).
AddToken(token) ==
  /\ pc \in {"init", "api"}
  /\ text = None /\ ids = None /\ file = None /\ loaded = None
  /\ \/ len(vocab) < FIRST_REGULAR_ID + MaxApiTokens
     \/ token \in DOMAIN vocab.token_to_id
  /\ LET r == add_token(vocab, token)
     IN  /\ vocab' = r.vocab
         /\ last' = Call("add_token", token, r.id)
  /\ pc' = "api"
  /\ UNCHANGED <<pretokens, target, sequences, freqs, runs, returned, client>>

\* A client calls vocab.add_pair(left, right, id).
AddPair(left, right, id) ==
  /\ pc \in {"init", "api"}
  /\ text = None /\ ids = None /\ file = None /\ loaded = None
  /\ pairs_count(vocab) < MaxApiPairs
  /\ vocab' = add_pair(vocab, left, right, id)
  /\ last' = Call("add_pair", <<left, right, id>>, <<>>)
  /\ pc' = "api"
  /\ UNCHANGED <<pretokens, target, sequences, freqs, runs, returned, client>>

\* train, lines 52-58: a new vocabulary, the pre-token counts, and the
\* character sequences, the map of counts iterated in some order.
TrainStart(input, size, order) ==
  LET pretoken_freqs == count_pretoken_freqs(input)
      r == init_char_sequences(pretoken_freqs, new, order)
  IN  /\ vocab' = r.vocab
      /\ sequences' = r.sequences
      /\ freqs' = r.freqs
      /\ pretokens' = input
      /\ target' = size
      /\ pc' = "loop"
      /\ last' = Call("train", <<>>, <<>>)

\* A client calls train(pretokens, target_max_vocab_size).
TrainBegin ==
  /\ pc = "init"
  /\ text = None /\ ids = None /\ file = None /\ loaded = None
  /\ \E input \in Corpora, size \in Targets :
       \E order \in Orders(DOMAIN count_pretoken_freqs(input)) :
         TrainStart(input, size, order)
  /\ runs' = 1
  /\ UNCHANGED <<returned, client>>

\* One iteration of train's loop, lines 61-70, that merges a pair.
TrainIter ==
  /\ pc = "loop"
  /\ loop_condition(vocab, target)
  /\ LET pair_counts == count_pair_freqs(sequences, freqs)
     IN  /\ pair_counts # <<>>
         /\ \E pair \in find_most_frequent_pair(pair_counts) :
              LET m == merge_tokens(vocab, pair[1], pair[2])
              IN  /\ vocab' = m.vocab
                  /\ sequences' = apply_merge(sequences, pair[1], pair[2], m.id)
                  /\ last' = Call("merge", pair, m.id)
  /\ UNCHANGED <<pc, pretokens, target, freqs, runs, returned, client>>

\* The mutant of TrainReturn: train leaves its loop at any iteration.
TrainReturn_at_any_iteration ==
  /\ pc = "loop"
  /\ pc' = "done"
  /\ last' = Call("return", <<>>, <<>>)
  /\ UNCHANGED <<vocab, pretokens, target, sequences, freqs, runs, returned, client>>

\* train leaves its loop, by the while condition or by the break, and
\* returns the vocabulary.
TrainReturn ==
  /\ pc = "loop"
  /\ \/ ~loop_condition(vocab, target)
     \/ count_pair_freqs(sequences, freqs) = <<>>
  /\ pc' = "done"
  /\ last' = Call("return", <<>>, <<>>)
  /\ UNCHANGED <<vocab, pretokens, target, sequences, freqs, runs, returned, client>>

\* What encode, decode leave alone.
library == <<vocab, pc, pretokens, target, sequences, freqs, runs, returned,
             command, native>>

\* A client calls encode(&vocab, s) on a vocabulary it holds.
Encode(s) ==
  /\ pc \in {"init", "api", "done"}
  /\ text = None /\ ids = None /\ file = None /\ loaded = None
  /\ text' = Some(s)
  /\ ids' = Some(encode(vocab, s))
  /\ decoded' = None
  /\ last' = Call("encode", s, encode(vocab, s))
  /\ UNCHANGED <<library, file, loaded>>

\* A client calls decode(&vocab, &ids) on the ids encode returned.
Decode ==
  /\ pc \in {"init", "api", "done"}
  /\ text # None /\ ids # None /\ decoded = None
  /\ decoded' = Some(decode(vocab, ids[1]))
  /\ last' = Call("decode", ids[1], decode(vocab, ids[1]))
  /\ UNCHANGED <<library, text, ids, file, loaded>>

\* A client calls decode(&vocab, &given) on ids of its own.
DecodeGiven(given) ==
  /\ pc \in {"init", "api", "done"}
  /\ text = None /\ ids = None /\ file = None /\ loaded = None
  /\ text' = None
  /\ ids' = Some(given)
  /\ decoded' = Some(decode(vocab, given))
  /\ last' = Call("decode", given, decode(vocab, given))
  /\ UNCHANGED <<library, file, loaded>>

\* The files another program leaves at the path, in the layout of version 1:
\* no token at all, one token, the same token twice, the same token twice
\* before another, and two tokens, each without a rule, with a rule, and
\* with a rule whose id is not stored.
CraftedFiles ==
  {save([token_to_id |-> <<>>, id_to_token |-> tokens, pairs |-> rules]) :
     tokens \in {<<>>, <<<<97>>>>, <<<<97>>, <<97>>>>, <<<<97>>, <<97>>, <<98>>>>,
                 <<<<233>>, <<97, 98>>>>},
     rules \in {<<>>, <<BpePair(0, 1, 1)>>, <<BpePair(0, 0, 7)>>}}

\* The files that are not in the layout of version 1: cut short in the
\* header, with other magic bytes before nothing, before a good rest and
\* before a cut one, and with another version field before nothing and
\* before a good rest.
BadHeaderFiles ==
  LET good == save(new)
      rest == SubSeq(good, 5, Len(good))
      body == SubSeq(good, 9, Len(good))
  IN  {<<>>, <<66, 80, 69>>, MAGIC, MAGIC \o <<1, 0>>,
       <<66, 80, 69, 1>>, <<98, 112, 101, 0>> \o rest, <<0, 66, 80, 69>> \o <<1, 0>>,
       <<66, 80, 69, 1>> \o <<2, 0, 0, 0>> \o body,
       MAGIC \o <<2, 0, 0, 0>>, MAGIC \o <<0, 0, 0, 0>> \o body,
       MAGIC \o <<1, 1, 0, 0>> \o body, MAGIC \o <<1, 0, 0, 1>> \o <<7>>}

\* The header of version 1 for vocab_size tokens and pairs_count rules.
Header(vocab_size, pairs_count_) ==
  write_u32(write_u32(write_u32(MAGIC, VERSION), vocab_size), pairs_count_)

\* The files of version 1 with a token's length at or over the limit and
\* few bytes after it: one byte over the limit before nothing and before a
\* byte, the limit itself, the largest length below 2^31, and one byte over
\* the limit in the second token.
LongTokenFiles ==
  {write_u32(Header(1, 0), MAX_TOKEN_LEN + 1),
   write_u32(Header(1, 0), MAX_TOKEN_LEN + 1) \o <<97>>,
   write_u32(Header(1, 0), MAX_TOKEN_LEN) \o <<97>>,
   write_u32(Header(1, 0), 2147483647) \o <<97, 98>>,
   write_u32(write_string(Header(2, 0), <<97>>), MAX_TOKEN_LEN + 1) \o <<97>>}

\* The files cut short: every proper prefix of a file of version 1 with a
\* token of two bytes, a token of two characters and a rule.
TruncatedFiles ==
  LET whole == save([token_to_id |-> <<>>,
                     id_to_token |-> <<<<233>>, <<97, 98>>>>,
                     pairs |-> <<BpePair(0, 1, 1)>>])
  IN  {SubSeq(whole, 1, n) : n \in 0..(Len(whole) - 1)}

\* A client calls save(&vocab, path) on a vocabulary it holds.
Save ==
  /\ pc \in {"init", "api", "done"}
  /\ text = None /\ ids = None /\ file = None /\ loaded = None
  /\ file' = Some([bytes |-> save(vocab), by |-> "save"])
  /\ last' = Call("save", <<>>, <<>>)
  /\ UNCHANGED <<library, text, ids, decoded, loaded>>

\* Another program writes the file at the path.
WriteFile(bytes) ==
  /\ pc = "init"
  /\ text = None /\ ids = None /\ file = None /\ loaded = None
  /\ file' = Some([bytes |-> bytes, by |-> "other"])
  /\ last' = Call("write", <<>>, <<>>)
  /\ UNCHANGED <<library, text, ids, decoded, loaded>>

\* A client calls load(path).
Load ==
  /\ pc \in {"init", "api", "done"}
  /\ text = None /\ ids = None /\ loaded = None
  /\ loaded' = Some(load(IF file = None THEN None ELSE Some(file[1].bytes)))
  /\ last' = Call("load", <<>>, <<>>)
  /\ UNCHANGED <<library, text, ids, decoded, file>>

\* A client calls encode(&vocab, s) on the vocabulary load has just
\* returned.
EncodeLoaded(s) ==
  /\ last.op = "load"
  /\ loaded # None
  /\ loaded[1].ok
  /\ last' = Call("encode_loaded", s, encode(loaded[1].value, s))
  /\ UNCHANGED <<library, text, ids, decoded, file, loaded>>

\* A client calls train again on the input of the run that returned.
TrainAgain ==
  /\ pc = "done"
  /\ runs < MaxRuns
  /\ text = None /\ ids = None /\ file = None /\ loaded = None
  /\ \E order \in Orders(DOMAIN count_pretoken_freqs(pretokens)) :
       TrainStart(pretokens, target, order)
  /\ runs' = runs + 1
  /\ returned' = Some(vocab)
  /\ UNCHANGED client

Next ==
  \/ \E token \in ApiTokens : AddToken(token)
  \/ \E pair \in ApiPairs : AddPair(pair[1], pair[2], pair[3])
  \/ TrainBegin
  \/ TrainIter
  \/ TrainReturn
  \/ \E s \in Texts : Encode(s)
  \/ Decode
  \/ \E given \in SeqsUpTo(DecodeIds, MaxIdsLen) : DecodeGiven(given)
  \/ Save
  \/ \E bytes \in CraftedFiles \cup BadHeaderFiles \cup LongTokenFiles
                    \cup TruncatedFiles :
       WriteFile(bytes)
  \/ Load
  \/ \E s \in Texts : EncodeLoaded(s)

Spec == Init /\ [][Next]_vars

\* The specification of two runs of train on one input.
NextTwice ==
  \/ TrainBegin
  \/ TrainIter
  \/ TrainReturn
  \/ TrainAgain

SpecTwice == Init /\ [][NextTwice]_vars

\* The specification of train alone, each step of a call that can be taken
\* being taken in the end: the thread that called train keeps running.
NextTrain ==
  \/ TrainBegin
  \/ TrainIter
  \/ TrainReturn

SpecTrain ==
  Init /\ [][NextTrain]_vars /\ WF_vars(TrainIter) /\ WF_vars(TrainReturn)

\* The ids of the working sequences handed to count_pair_freqs on its own.
CountIds == {1, 2}

\* The working sequences handed to count_pair_freqs on its own, with their
\* frequencies: none, one or two sequences, the same one twice included.
CountInputs ==
  LET seqs == SeqsUpTo(CountIds, MaxSeqLen)
      fs == 1..MaxFreq
  IN  {[sequences |-> <<>>, freqs |-> <<>>]}
      \cup {[sequences |-> <<s>>, freqs |-> <<f>>] : s \in seqs, f \in fs}
      \cup {[sequences |-> <<s, t>>, freqs |-> <<f, g>>] :
              s \in seqs, t \in seqs, f \in fs, g \in fs}

\* The state before a call of count_pair_freqs(&sequences, &freqs) on its
\* own.
InitCount ==
  /\ vocab = new
  /\ pc = "count"
  /\ pretokens = <<>>
  /\ target = 0
  /\ \E input \in CountInputs :
       /\ sequences = input.sequences
       /\ freqs = input.freqs
  /\ last = Call("new", <<>>, <<>>)
  /\ runs = 0
  /\ returned = None
  /\ text = None
  /\ ids = None
  /\ decoded = None
  /\ file = None
  /\ loaded = None
  /\ command = NoCommand
  /\ native = NoModel

\* count_pair_freqs(&sequences, &freqs) is called and returns.
CountPairFreqs ==
  /\ pc = "count"
  /\ last' = Call("count_pair_freqs", <<sequences, freqs>>,
                  count_pair_freqs(sequences, freqs))
  /\ pc' = "counted"
  /\ UNCHANGED <<vocab, pretokens, target, sequences, freqs, runs, returned, client>>

\* The specification of count_pair_freqs on its own.
SpecCount == InitCount /\ [][CountPairFreqs]_vars

\* The ids of the working sequences handed to apply_merge on its own, and
\* the merged ids: one of the two, or another.
MergeIds == {1, 2}
MergedIds == MergeIds \cup {99}

\* The working sequences handed to apply_merge on its own: none, one or two.
MergeInputs ==
  LET seqs == SeqsUpTo(MergeIds, MaxMergeLen)
  IN  {<<>>} \cup {<<s>> : s \in seqs} \cup {<<s, t>> : s \in seqs, t \in seqs}

\* The state before a call of apply_merge on its own.
InitMerge ==
  /\ vocab = new
  /\ pc = "merge"
  /\ pretokens = <<>>
  /\ target = 0
  /\ sequences \in MergeInputs
  /\ freqs = <<>>
  /\ last = Call("new", <<>>, <<>>)
  /\ runs = 0
  /\ returned = None
  /\ text = None
  /\ ids = None
  /\ decoded = None
  /\ file = None
  /\ loaded = None
  /\ command = NoCommand
  /\ native = NoModel

\* train.rs's apply_merge(&mut sequences, left, right, merged_id) is called
\* and returns; encode.rs's apply_merge is called on a copy of each
\* sequence, whose results are kept in the record of the call.
ApplyMerge ==
  /\ pc = "merge"
  /\ \E left \in MergeIds, right \in MergeIds, merged_id \in MergedIds :
       /\ sequences' = apply_merge(sequences, left, right, merged_id)
       /\ last' = Call("apply_merge", <<sequences, left, right, merged_id>>,
                       [k \in DOMAIN sequences |->
                          encode_apply_merge(sequences[k], 0, left, right, merged_id)])
  /\ pc' = "merged"
  /\ UNCHANGED <<vocab, pretokens, target, freqs, runs, returned, client>>

\* The specification of apply_merge on its own.
SpecMerge == InitMerge /\ [][ApplyMerge]_vars

\* ------------------------------------------------------- the CLI commands

\* How many epochs the train command runs, how many terms an analogy query
\* has, and how many rows the native model reports, at most.
MaxEpochs == 2
MaxTerms == 2
MaxModelVocab == 2

\* The status codes of the native functions: success, interrupted, and one
\* of the errors.
SUCCESS == 0
STATUS_INTERRUPTED == 1
ERR_FILE_IO == -4
Statuses == {SUCCESS, STATUS_INTERRUPTED, ERR_FILE_IO}

\* The commands that create the native model.
Commands == {"train", "embed", "similar", "analogy"}

\* wvec_model_init or wvec_checkpoint_load succeeded: the model exists.
wvec_model_created(model) == [model EXCEPT !.created = TRUE]

\* wvec_model_free() is called.
wvec_model_free(model) == [model EXCEPT !.frees = @ + 1]

\* The command is at position p of its run function.
At(name, p) == command.name = name /\ command.result = "none" /\ pc = p

\* run moves on to position p.
Goto(p) == pc' = p /\ command' = command

\* run starts its loop at position p.
GotoLoop(p, first) == pc' = p /\ command' = [command EXCEPT !.i = first]

\* run returns Ok(()) or Err(..).
Return(result) == pc' = "returned" /\ command' = [command EXCEPT !.result = result]

\* What a step of a command leaves alone.
bpe == <<vocab, pretokens, target, sequences, freqs, runs, returned,
         text, ids, decoded, file, loaded>>

\* The state when a command's run is called with its arguments: the epochs
\* of train, the terms of the analogy query, the one word of embed and
\* similar.
InitCli ==
  /\ vocab = new
  /\ pc = "run"
  /\ pretokens = <<>>
  /\ target = 0
  /\ sequences = <<>>
  /\ freqs = <<>>
  /\ last = Call("run", <<>>, <<>>)
  /\ runs = 0
  /\ returned = None
  /\ text = None
  /\ ids = None
  /\ decoded = None
  /\ file = None
  /\ loaded = None
  /\ \E name \in Commands :
     \E n \in (CASE name = "train" -> 0..MaxEpochs
                 [] name = "analogy" -> 1..MaxTerms
                 [] OTHER -> {1}) :
       command = [name |-> name, n |-> n, vocab_size |-> 0, i |-> 0,
                  result |-> "none"]
  /\ native = NoModel

\* train: the arguments are parsed, the corpus is read, the vocabulary is
\* loaded or trained and saved, the corpus is encoded; any of these may
\* fail.
CmdTrainPrepare ==
  /\ At("train", "run")
  /\ \E ok \in BOOLEAN :
       /\ last' = Call("prepare", <<>>, ok)
       /\ IF ok THEN Goto("model_init") ELSE Return("Err")
  /\ UNCHANGED <<bpe, native>>

\* train: wvec_shutdown_reset(); wvec_model_init(vocab.len(), dim).
CmdTrainModelInit ==
  /\ At("train", "model_init")
  /\ \E status \in Statuses :
       /\ last' = Call("wvec_model_init", <<>>, status)
       /\ IF status # SUCCESS
            THEN Return("Err") /\ native' = native
            ELSE GotoLoop("epoch", 1) /\ native' = wvec_model_created(native)
  /\ UNCHANGED bpe

\* train: one iteration of `for epoch in 1..=epochs`, or its exit.
CmdTrainEpoch ==
  /\ At("train", "epoch")
  /\ IF command.i > command.n
       THEN Goto("checkpoint_save") /\ UNCHANGED <<last, native>>
       ELSE \E status \in Statuses :
              /\ last' = Call("wvec_train_corpus", command.i, status)
              /\ IF status = STATUS_INTERRUPTED
                   THEN Goto("checkpoint_save") /\ native' = native
                   ELSE IF status # SUCCESS
                          THEN Return("Err") /\ native' = wvec_model_free(native)
                          ELSE GotoLoop("epoch", command.i + 1) /\ native' = native
  /\ UNCHANGED bpe

\* train: wvec_checkpoint_save(..), wvec_model_free() and the return.
CmdTrainCheckpointSave ==
  /\ At("train", "checkpoint_save")
  /\ \E status \in Statuses :
       /\ last' = Call("wvec_checkpoint_save", <<>>, status)
       /\ Return(IF status # SUCCESS THEN "Err" ELSE "Ok")
       /\ native' = wvec_model_free(native)
  /\ UNCHANGED bpe

\* embed: the arguments are parsed, the vocabulary is loaded and the word
\* is looked up; any of these may fail.
CmdEmbedLookup ==
  /\ At("embed", "run")
  /\ \E ok \in BOOLEAN :
       /\ last' = Call("get_id_opt", <<>>, ok)
       /\ IF ok THEN Goto("checkpoint_load") ELSE Return("Err")
  /\ UNCHANGED <<bpe, native>>

\* embed: wvec_checkpoint_load(..) and wvec_model_get_dims(..).
CmdEmbedCheckpointLoad ==
  /\ At("embed", "checkpoint_load")
  /\ \E status \in Statuses :
       /\ last' = Call("wvec_checkpoint_load", <<>>, status)
       /\ IF status # SUCCESS
            THEN Return("Err") /\ native' = native
            ELSE /\ pc' = "get_embedding"
                 /\ \E vocab_size \in 0..MaxModelVocab :
                      command' = [command EXCEPT !.vocab_size = vocab_size]
                 /\ native' = wvec_model_created(native)
  /\ UNCHANGED bpe

\* embed: wvec_get_embedding(word_id, ..), wvec_model_free() and the
\* return.
CmdEmbedGetEmbedding ==
  /\ At("embed", "get_embedding")
  /\ \E status \in Statuses :
       /\ last' = Call("wvec_get_embedding", <<>>, status)
       /\ Return(IF status # SUCCESS THEN "Err" ELSE "Ok")
       /\ native' = wvec_model_free(native)
  /\ UNCHANGED bpe

\* similar: the arguments are parsed, the vocabulary is loaded and the
\* word is looked up; any of these may fail.
CmdSimilarLookup ==
  /\ At("similar", "run")
  /\ \E ok \in BOOLEAN :
       /\ last' = Call("get_id_opt", <<>>, ok)
       /\ IF ok THEN Goto("checkpoint_load") ELSE Return("Err")
  /\ UNCHANGED <<bpe, native>>

\* similar: wvec_checkpoint_load(..) and wvec_model_get_dims(..).
CmdSimilarCheckpointLoad ==
  /\ At("similar", "checkpoint_load")
  /\ \E status \in Statuses :
       /\ last' = Call("wvec_checkpoint_load", <<>>, status)
       /\ IF status # SUCCESS
            THEN Return("Err") /\ native' = native
            ELSE /\ pc' = "get_embedding"
                 /\ \E vocab_size \in 0..MaxModelVocab :
                      command' = [command EXCEPT !.vocab_size = vocab_size]
                 /\ native' = wvec_model_created(native)
  /\ UNCHANGED bpe

\* similar: wvec_get_embedding(word_id, ..) for the query word.
CmdSimilarQuery ==
  /\ At("similar", "get_embedding")
  /\ \E status \in Statuses :
       /\ last' = Call("wvec_get_embedding", <<>>, status)
       /\ IF status # SUCCESS
            THEN Return("Err") /\ native' = wvec_model_free(native)
            ELSE GotoLoop("scan", 0) /\ native' = native
  /\ UNCHANGED bpe

\* similar: one iteration of `for id in 0..vocab_size`; a failure of
\* wvec_get_embedding skips the id.
CmdSimilarScan ==
  /\ At("similar", "scan")
  /\ command.i < command.vocab_size
  /\ \E status \in Statuses :
       last' = Call("wvec_get_embedding", command.i, status)
  /\ GotoLoop("scan", command.i + 1)
  /\ UNCHANGED <<bpe, native>>

\* similar: the loop is over; the results are sorted and printed,
\* wvec_model_free() is called and run returns.
CmdSimilarFinish ==
  /\ At("similar", "scan")
  /\ ~(command.i < command.vocab_size)
  /\ last' = Call("wvec_model_free", <<>>, <<>>)
  /\ Return("Ok")
  /\ native' = wvec_model_free(native)
  /\ UNCHANGED bpe

\* analogy: the arguments and the query are parsed and the vocabulary is
\* loaded; any of these may fail.
CmdAnalogyPrepare ==
  /\ At("analogy", "run")
  /\ \E ok \in BOOLEAN :
       /\ last' = Call("load_vocab", <<>>, ok)
       /\ IF ok THEN Goto("checkpoint_load") ELSE Return("Err")
  /\ UNCHANGED <<bpe, native>>

\* analogy: wvec_checkpoint_load(..) and wvec_model_get_dims(..).
CmdAnalogyCheckpointLoad ==
  /\ At("analogy", "checkpoint_load")
  /\ \E status \in Statuses :
       /\ last' = Call("wvec_checkpoint_load", <<>>, status)
       /\ IF status # SUCCESS
            THEN Return("Err") /\ native' = native
            ELSE /\ pc' = "terms"
                 /\ \E vocab_size \in 0..MaxModelVocab :
                      command' = [command EXCEPT !.vocab_size = vocab_size,
                                                 !.i = 1]
                 /\ native' = wvec_model_created(native)
  /\ UNCHANGED bpe

\* analogy: one iteration of `for (word, sign) in &terms`, or its exit. The
\* `?` on get_id_opt(word) returns at once; a failure of wvec_get_embedding
\* frees the model and returns.
CmdAnalogyTerm ==
  /\ At("analogy", "terms")
  /\ IF command.i > command.n
       THEN GotoLoop("scan", 0) /\ UNCHANGED <<last, native>>
       ELSE \E known \in BOOLEAN :
              IF ~known
                THEN /\ last' = Call("get_id_opt", command.i, known)
                     /\ Return("Err")
                     /\ native' = native
                ELSE \E status \in Statuses :
                       /\ last' = Call("wvec_get_embedding", command.i, status)
                       /\ IF status # SUCCESS
                            THEN Return("Err") /\ native' = wvec_model_free(native)
                            ELSE GotoLoop("terms", command.i + 1) /\ native' = native
  /\ UNCHANGED bpe

\* analogy: one iteration of `for id in 0..vocab_size`; a failure of
\* wvec_get_embedding skips the id.
CmdAnalogyScan ==
  /\ At("analogy", "scan")
  /\ command.i < command.vocab_size
  /\ \E status \in Statuses :
       last' = Call("wvec_get_embedding", command.i, status)
  /\ GotoLoop("scan", command.i + 1)
  /\ UNCHANGED <<bpe, native>>

\* analogy: the loop is over; the results are sorted, wvec_model_free() is
\* called, the results are printed and run returns.
CmdAnalogyFinish ==
  /\ At("analogy", "scan")
  /\ ~(command.i < command.vocab_size)
  /\ last' = Call("wvec_model_free", <<>>, <<>>)
  /\ Return("Ok")
  /\ native' = wvec_model_free(native)
  /\ UNCHANGED bpe

NextCli ==
  \/ CmdTrainPrepare
  \/ CmdTrainModelInit
  \/ CmdTrainEpoch
  \/ CmdTrainCheckpointSave
  \/ CmdEmbedLookup
  \/ CmdEmbedCheckpointLoad
  \/ CmdEmbedGetEmbedding
  \/ CmdSimilarLookup
  \/ CmdSimilarCheckpointLoad
  \/ CmdSimilarQuery
  \/ CmdSimilarScan
  \/ CmdSimilarFinish
  \/ CmdAnalogyPrepare
  \/ CmdAnalogyCheckpointLoad
  \/ CmdAnalogyTerm
  \/ CmdAnalogyScan
  \/ CmdAnalogyFinish

\* The specification of the commands' run functions.
SpecCli == InitCli /\ [][NextCli]_vars

\* ------------------------------------------------------------------ claims

\* s is a prefix of t.
IsPrefix(s, t) == Len(s) <= Len(t) /\ SubSeq(t, 1, Len(s)) = s

\* The characters of the pre-tokens train was given.
TrainedChars ==
  UNION {{pretokens[k][i] : i \in DOMAIN pretokens[k]} : k \in DOMAIN pretokens}

\* The size of the vocabulary when train enters its loop: the special
\* tokens and the distinct characters.
InitialSize == FIRST_REGULAR_ID + Cardinality(TrainedChars)

\* The four special tokens are registered in v at their ids.
HasSpecialTokens(v) ==
  /\ get_token(v, UNK_ID) = Some(UNK_TOKEN) /\ get_id_opt(v, UNK_TOKEN) = Some(UNK_ID)
  /\ get_token(v, PAD_ID) = Some(PAD_TOKEN) /\ get_id_opt(v, PAD_TOKEN) = Some(PAD_ID)
  /\ get_token(v, BOS_ID) = Some(BOS_TOKEN) /\ get_id_opt(v, BOS_TOKEN) = Some(BOS_ID)
  /\ get_token(v, EOS_ID) = Some(EOS_TOKEN) /\ get_id_opt(v, EOS_TOKEN) = Some(EOS_ID)

\* C1: for a vocabulary returned by train and a text made only of characters
\* of the training pre-tokens, decoding the ids encode returned for the text
\* gives the text back.
C1_RoundTrip ==
  (/\ pc = "done" /\ text # None /\ ids # None /\ decoded # None
   /\ \A i \in DOMAIN text[1] : text[1][i] \in TrainedChars)
  => decoded[1] = text[1]

\* A text of three trained characters was encoded with a merge applied, and
\* decoded.
C1_Witness ==
  /\ pc = "done" /\ text # None /\ ids # None /\ decoded # None
  /\ Len(text[1]) = MaxTextLen
  /\ \A i \in DOMAIN text[1] : text[1][i] \in TrainedChars
  /\ Len(ids[1]) < Len(text[1])
  /\ pairs_count(vocab) > 1

C3_GrowthBound ==
  pc = "done"
  => /\ InitialSize <= len(vocab)
     /\ len(vocab) <= (IF target > InitialSize THEN target ELSE InitialSize)
     /\ (target < InitialSize => len(vocab) = InitialSize)

\* train returned a vocabulary grown to the target with pairs still left to
\* merge.
C3_Witness ==
  /\ pc = "done"
  /\ target > InitialSize
  /\ len(vocab) = target
  /\ count_pair_freqs(sequences, freqs) # <<>>

\* C4: the token->id map and the id->token sequence are inverse to each
\* other and have the same number of entries.
C4_Bidirectional ==
  /\ \A i \in 0..(len(vocab) - 1) :
       get_id_opt(vocab, get_token(vocab, i)[1]) = Some(i)
  /\ \A t \in DOMAIN vocab.token_to_id :
       get_token(vocab, vocab.token_to_id[t]) = Some(t)
  /\ Cardinality(DOMAIN vocab.token_to_id) = Len(vocab.id_to_token)

\* A client added a token twice and a rule to a new vocabulary.
C4_Witness ==
  /\ pc = "api"
  /\ last.op = "add_token" /\ last.ret = FIRST_REGULAR_ID
  /\ len(vocab) = FIRST_REGULAR_ID + MaxApiTokens
  /\ pairs_count(vocab) > 0

\* C5: every vocabulary, from new(), from train or from a successful load,
\* has the four special tokens at ids 0 to 3, and new() has these four
\* tokens only and no rule.
C5_SpecialTokens ==
  /\ HasSpecialTokens(vocab)
  /\ (pc = "init" => len(vocab) = FIRST_REGULAR_ID /\ pairs_count(vocab) = 0)
  /\ ((loaded # None /\ loaded[1].ok) => HasSpecialTokens(loaded[1].value))

\* C6: add_token of a registered token returns the id it has and changes
\* nothing of the vocabulary.
C6_DuplicateNoOp ==
  [][(last'.op = "add_token" /\ last'.arg \in DOMAIN vocab.token_to_id)
     => /\ last'.ret = vocab.token_to_id[last'.arg]
        /\ vocab' = vocab]_vars

\* A client added a registered token, other than the last one registered.
C6_Witness ==
  /\ last.op = "add_token"
  /\ len(vocab) = FIRST_REGULAR_ID + MaxApiTokens
  /\ last.ret < len(vocab) - 1

\* C7: add_token of a token not registered returns len() as it was, grows
\* len() by one, registers the token at that id and changes no id assigned
\* before; the first token added to new() gets id 4.
C7_DenseIds ==
  [][(last'.op = "add_token" /\ last'.arg \notin DOMAIN vocab.token_to_id)
     => /\ last'.ret = len(vocab)
        /\ len(vocab') = len(vocab) + 1
        /\ get_token(vocab', last'.ret) = Some(last'.arg)
        /\ get_id_opt(vocab', last'.arg) = Some(last'.ret)
        /\ \A i \in 0..(len(vocab) - 1) : get_token(vocab', i) = get_token(vocab, i)
        /\ \A t \in DOMAIN vocab.token_to_id :
             get_id_opt(vocab', t) = get_id_opt(vocab, t)
        /\ (vocab = new => last'.ret = FIRST_REGULAR_ID)]_vars

\* A client added a second new token, which got id 5.
C7_Witness ==
  /\ last.op = "add_token"
  /\ last.ret = FIRST_REGULAR_ID + 1
  /\ len(vocab) = FIRST_REGULAR_ID + 2

\* C8: every step keeps the tokens and the rules it found as a prefix of
\* what it leaves; add_pair appends its rule whatever the ids and leaves the
\* tokens alone.
C8_AppendOnly ==
  [][/\ IsPrefix(vocab.id_to_token, vocab'.id_to_token)
     /\ IsPrefix(vocab.pairs, vocab'.pairs)
     /\ (last'.op = "add_pair"
         => /\ vocab'.pairs
                 = Append(vocab.pairs,
                          BpePair(last'.arg[1], last'.arg[2], last'.arg[3]))
            /\ vocab'.id_to_token = vocab.id_to_token
            /\ vocab'.token_to_id = vocab.token_to_id)]_vars

\* A client added a rule whose id is registered nowhere.
C8_Witness ==
  /\ last.op = "add_pair"
  /\ get_token(vocab, last.arg[3]) = None
  /\ pairs_count(vocab) = MaxApiPairs

\* C9: in a vocabulary train returned, every rule names registered ids and
\* its id's token is the left token followed by the right token; trained on
\* "ab" three times with target 10, it holds "ab" and the rule ('a', 'b',
\* "ab").
C9_RuleValidity ==
  pc = "done"
  => /\ \A k \in DOMAIN pairs(vocab) :
          LET pair == pairs(vocab)[k]
          IN  /\ pair.left < len(vocab)
              /\ pair.right < len(vocab)
              /\ pair.id < len(vocab)
              /\ get_token(vocab, pair.id)[1]
                   = get_token(vocab, pair.left)[1] \o get_token(vocab, pair.right)[1]
     /\ (pretokens \in Scenarios /\ target = MaxTarget)
        => /\ get_id_opt(vocab, <<97, 98>>) # None
           /\ \E k \in DOMAIN pairs(vocab) :
                pairs(vocab)[k] = BpePair(get_id(vocab, <<97>>), get_id(vocab, <<98>>),
                                          get_id(vocab, <<97, 98>>))

\* train returned from "ab" three times with the largest target.
C9_Witness ==
  /\ pc = "done"
  /\ pretokens \in Scenarios
  /\ target = MaxTarget
  /\ pairs_count(vocab) = 1

\* The number of positions i of seq with seq[i] = l and seq[i + 1] = r.
Positions(seq, l, r) ==
  Cardinality({i \in 1..(Len(seq) - 1) : seq[i] = l /\ seq[i + 1] = r})

RECURSIVE Accumulated(_, _, _, _, _)
\* The sum, over the sequences from k on, of the sequence's frequency times
\* the number of positions of (l, r) in it.
Accumulated(seqs, fs, k, l, r) ==
  IF k > Len(seqs) THEN 0
  ELSE fs[k] * Positions(seqs[k], l, r) + Accumulated(seqs, fs, k + 1, l, r)

\* The ids in the working sequences.
WorkingIds(seqs) ==
  UNION {{seqs[k][i] : i \in DOMAIN seqs[k]} : k \in DOMAIN seqs}

\* C11: the pair an iteration of train merges is adjacent in the working
\* sequences and no pair there has a larger accumulated frequency; trained
\* on "aab" three times and "aac" once, the first iteration merges
\* ('a', 'a'), of frequency 4.
C11_Greedy ==
  [][last'.op = "merge"
     => /\ Accumulated(sequences, freqs, 1, last'.arg[1], last'.arg[2]) > 0
        /\ \A l, r \in WorkingIds(sequences) :
             Accumulated(sequences, freqs, 1, l, r)
               <= Accumulated(sequences, freqs, 1, last'.arg[1], last'.arg[2])
        /\ (pretokens = FrequentPairs /\ pairs_count(vocab) = 0)
           => /\ last'.arg = <<get_id(vocab, <<97>>), get_id(vocab, <<97>>)>>
              /\ Accumulated(sequences, freqs, 1, last'.arg[1], last'.arg[2]) = 4]_vars

\* The first iteration of train on "aab" three times and "aac" once merged
\* a pair, with two rarer pairs in the sequences.
C11_Witness ==
  /\ last.op = "merge"
  /\ pretokens = FrequentPairs
  /\ pairs_count(vocab) = 1
  /\ get_id_opt(vocab, <<97, 97>>) # None

\* The bytes of the file load read.
LoadedBytes == file[1].bytes

\* C12: load of a file whose first four bytes are not "BPE\0" fails with
\* "invalid magic bytes" whatever follows them, load of a file with these
\* four bytes and a version field other than 1 fails with "unsupported
\* version", and load fails with neither error on any other file, so that
\* the two are told apart from each other and from a failure of the read.
C12_HeaderValidation ==
  (file # None /\ loaded # None)
  => LET bad_magic == /\ Len(LoadedBytes) >= 4
                      /\ SubSeq(LoadedBytes, 1, 4) # <<66, 80, 69, 0>>
         bad_version == /\ Len(LoadedBytes) >= 8
                        /\ SubSeq(LoadedBytes, 1, 4) = <<66, 80, 69, 0>>
                        /\ SubSeq(LoadedBytes, 5, 8) # <<1, 0, 0, 0>>
     IN  /\ bad_magic <=> (~loaded[1].ok /\ loaded[1].err = "invalid magic bytes")
         /\ bad_version <=> (~loaded[1].ok /\ loaded[1].err = "unsupported version")
         /\ (bad_magic \/ bad_version) => "value" \notin DOMAIN loaded[1]

\* load refused a file with other magic bytes before an otherwise good
\* file.
C12_Witness ==
  /\ file # None /\ loaded # None
  /\ Len(LoadedBytes) = Len(save(new))
  /\ SubSeq(LoadedBytes, 1, 4) # MAGIC
  /\ SubSeq(LoadedBytes, 5, Len(LoadedBytes)) = SubSeq(save(new), 5, Len(save(new)))
  /\ ~loaded[1].ok

\* The four bytes of `bytes` before position pos hold a length over the
\* limit.
TooLongBefore(bytes, pos) ==
  /\ pos >= 4 /\ pos <= Len(bytes)
  /\ from_le_bytes(SubSeq(bytes, pos - 3, pos)) > 8 * 1024 * 1024

\* The header of the file load read is good and declares a token at least.
DeclaresToken ==
  /\ Len(LoadedBytes) >= 20
  /\ SubSeq(LoadedBytes, 1, 8) = <<66, 80, 69, 0, 1, 0, 0, 0>>
  /\ from_le_bytes(SubSeq(LoadedBytes, 9, 12)) >= 1

\* C13: load of a file whose first token has a length over 8 MiB fails with
\* "token too long" with the reader just after the length, none of the
\* token's bytes read; load fails so only just after a length over 8 MiB;
\* and a length of 8 MiB exactly is not refused so.
C13_LengthGuard ==
  (file # None /\ loaded # None)
  => /\ MAX_TOKEN_LEN = 8 * 1024 * 1024
     /\ (DeclaresToken /\ TooLongBefore(LoadedBytes, 20))
        => /\ ~loaded[1].ok
           /\ loaded[1].err = "token too long"
           /\ loaded[1].pos = 20
     /\ (~loaded[1].ok /\ loaded[1].err = "token too long")
        => TooLongBefore(LoadedBytes, loaded[1].pos)
     /\ (DeclaresToken
         /\ from_le_bytes(SubSeq(LoadedBytes, 17, 20)) = 8 * 1024 * 1024)
        => ~(~loaded[1].ok /\ loaded[1].err = "token too long")

\* load refused a file whose first token declares 8 MiB and a byte, with a
\* byte after the length.
C13_Witness ==
  /\ file # None /\ loaded # None
  /\ DeclaresToken
  /\ from_le_bytes(SubSeq(LoadedBytes, 17, 20)) = 8 * 1024 * 1024 + 1
  /\ Len(LoadedBytes) > 20
  /\ ~loaded[1].ok

RECURSIVE Concat(_)
\* The strings of a sequence one after the other.
Concat(strs) ==
  IF strs = <<>> THEN <<>> ELSE Head(strs) \o Concat(Tail(strs))

\* C14: what decode returns is, id by id in order, the token of the id when
\* the id is below len() and "[UNK]" when it is not; decode of [999] with a
\* vocabulary of four tokens returns "[UNK]".
C14_DecodeTotal ==
  (ids # None /\ decoded # None)
  => /\ decoded[1]
          = Concat([k \in DOMAIN ids[1] |->
                      IF ids[1][k] < len(vocab)
                      THEN vocab.id_to_token[ids[1][k] + 1]
                      ELSE <<91, 85, 78, 75, 93>>])
     /\ (ids[1] = <<999>> /\ len(vocab) = 4) => decoded[1] = <<91, 85, 78, 75, 93>>

\* decode was handed an id that is not registered and then a registered one
\* of a trained vocabulary.
C14_Witness ==
  /\ pc = "done"
  /\ last.op = "decode"
  /\ ids = Some(<<999, 4>>)
  /\ len(vocab) > 4
  /\ decoded # None

\* The ids of the characters of str before any merge: the id of the
\* character's token when it is registered in v, and 0 when it is not.
CharIds(v, str) ==
  [k \in DOMAIN str |->
     IF <<str[k]>> \in DOMAIN v.token_to_id THEN v.token_to_id[<<str[k]>>] ELSE 0]

\* C15: encode returns an id sequence for every text: the rules of the
\* vocabulary applied in order to the ids of the characters, where a
\* character that is not registered has id 0; with no rule the result has
\* one id for each character.
C15_EncodeTotal ==
  (text # None /\ ids # None)
  => /\ ids[1] \in Seq(Nat)
     /\ ids[1] = encode_pairs_from(vocab, 1, CharIds(vocab, text[1]))
     /\ Len(ids[1]) <= Len(text[1])
     /\ pairs_count(vocab) = 0
        => /\ Len(ids[1]) = Len(text[1])
           /\ ids[1] = CharIds(vocab, text[1])

\* encode was handed a text of a character that is not registered between
\* two registered ones, with a vocabulary train returned without a rule.
C15_Witness ==
  /\ pc = "done"
  /\ last.op = "encode"
  /\ pairs_count(vocab) = 0
  /\ text = Some(<<97, 98, 97>>)
  /\ ids = Some(<<FIRST_REGULAR_ID, UNK_ID, FIRST_REGULAR_ID>>)

RECURSIVE SumSeq(_)
\* The sum of a sequence of numbers.
SumSeq(ns) == IF ns = <<>> THEN 0 ELSE Head(ns) + SumSeq(Tail(ns))

\* C16: train on pre-tokens that are all empty, or on none, returns the
\* four special tokens and no rule whatever the target; and in every run
\* there is one working sequence for each distinct pre-token that is not
\* empty, none of them empty, and their frequencies add up to the number of
\* pre-tokens that are not empty.
C16_DegenerateInput ==
  pc \in {"loop", "done"}
  => /\ (pc = "done" /\ \A k \in DOMAIN pretokens : pretokens[k] = <<>>)
        => /\ len(vocab) = 4
           /\ vocab.id_to_token = <<UNK_TOKEN, PAD_TOKEN, BOS_TOKEN, EOS_TOKEN>>
           /\ pairs_count(vocab) = 0
     /\ Len(sequences) = Cardinality({pretokens[k] : k \in DOMAIN pretokens} \ {<<>>})
     /\ Len(freqs) = Len(sequences)
     /\ \A k \in DOMAIN sequences : sequences[k] # <<>>
     /\ SumSeq(freqs) = Cardinality({k \in DOMAIN pretokens : pretokens[k] # <<>>})

\* train returned from two empty pre-tokens and the largest target.
C16_Witness ==
  /\ pc = "done"
  /\ pretokens = <<<<>>, <<>>>>
  /\ target = MaxTarget
  /\ len(vocab) = FIRST_REGULAR_ID

\* C17: encode of the empty text returns no id and decode of no id returns
\* the empty text, whatever the vocabulary.
C17_EmptyInputs ==
  /\ (text = Some(<<>>) /\ ids # None) => ids = Some(<<>>)
  /\ (ids = Some(<<>>) /\ decoded # None) => decoded = Some(<<>>)

\* The empty text was encoded and the result decoded with a vocabulary
\* train returned with a rule.
C17_Witness ==
  /\ pc = "done"
  /\ pairs_count(vocab) > 0
  /\ last.op = "decode"
  /\ text = Some(<<>>)
  /\ ids = Some(<<>>)
  /\ decoded = Some(<<>>)

RECURSIVE StoredTokens(_, _, _)
\* The next n tokens stored in `bytes` from position pos on.
StoredTokens(bytes, pos, n) ==
  IF n = 0 THEN <<>>
  ELSE LET token == read_string(bytes, pos)
       IN  <<token.value>> \o StoredTokens(bytes, token.pos, n - 1)

\* The m rules stored in the last 12 * m bytes of `bytes`.
StoredPairs(bytes, m) ==
  LET start == Len(bytes) - 12 * m
      field(k, j) ==
        from_le_bytes(SubSeq(bytes, start + 12 * (k - 1) + 4 * j + 1,
                                    start + 12 * (k - 1) + 4 * j + 4))
  IN  [k \in 1..m |-> BpePair(field(k, 0), field(k, 1), field(k, 2))]

\* C18: the vocabulary a successful load returns from a file that declares
\* n tokens and m rules, and ends with the last rule, has len() = n, the
\* i-th stored token at id i, and the m stored rules in the order of the
\* file.
C18_LoadExact ==
  (file # None /\ loaded # None /\ loaded[1].ok /\ loaded[1].pos = Len(LoadedBytes))
  => LET n == from_le_bytes(SubSeq(LoadedBytes, 9, 12))
         m == from_le_bytes(SubSeq(LoadedBytes, 13, 16))
         stored == StoredTokens(LoadedBytes, 16, n)
     IN  /\ len(loaded[1].value) = n
         /\ \A i \in 0..(n - 1) : get_token(loaded[1].value, i) = Some(stored[i + 1])
         /\ pairs(loaded[1].value) = StoredPairs(LoadedBytes, m)

\* C19: in every run of train the rules are as many as the tokens added
\* since the loop was entered, the k-th rule (from 0) has the id initial
\* size + k, and the id of every rule is 4 at least and above the rule's
\* left and right ids.
C19_MergeRegisters ==
  pc \in {"loop", "done"}
  => /\ pairs_count(vocab) = len(vocab) - InitialSize
     /\ \A k \in DOMAIN pairs(vocab) :
          LET pair == pairs(vocab)[k]
          IN  /\ pair.id = InitialSize + (k - 1)
              /\ pair.id >= 4
              /\ pair.id > pair.left
              /\ pair.id > pair.right

\* The count the map returned by count_pair_freqs holds for (l, r): 0 when
\* the pair has no entry.
CountOf(pair_counts, l, r) ==
  IF <<l, r>> \in DOMAIN pair_counts THEN pair_counts[<<l, r>>] ELSE 0

\* C20: the count count_pair_freqs returns for a pair (l, r) is the sum over
\* the sequences of the frequency times the number of positions of (l, r)
\* in the sequence, overlapping ones included, and only pairs that occur
\* have an entry: [1, 1, 1] of frequency 1 gives (1, 1) the count 2, [1, 2]
\* twice with frequencies 2 and 3 gives (1, 2) the count 5, and sequences
\* of length 1 at most give no entry.
C20_PairCounting ==
  last.op = "count_pair_freqs"
  => /\ \A l, r \in CountIds :
          CountOf(last.ret, l, r) = Accumulated(last.arg[1], last.arg[2], 1, l, r)
     /\ \A p \in DOMAIN last.ret :
          /\ p \in CountIds \X CountIds
          /\ last.ret[p] > 0
     /\ last.arg = <<<<<<1, 1, 1>>>>, <<1>>>> => last.ret = (<<1, 1>> :> 2)
     /\ last.arg = <<<<<<1, 2>>, <<1, 2>>>>, <<2, 3>>>> => last.ret = (<<1, 2>> :> 5)
     /\ (\A k \in DOMAIN last.arg[1] : Len(last.arg[1][k]) <= 1) => last.ret = <<>>

\* count_pair_freqs returned from a sequence with a pair at two overlapping
\* positions and another sequence with the same pair.
C20_Witness ==
  /\ last.op = "count_pair_freqs"
  /\ last.arg = <<<<<<1, 1, 1>>, <<2, 1, 1>>>>, <<2, 3>>>>
  /\ last.ret = (<<1, 1>> :> 7) @@ (<<2, 1>> :> 3)

RECURSIVE Rescan(_, _, _, _)
\* seq rewritten from its head on: a leading (left, right) is replaced by
\* merged and the result is looked at again from the same place.
Rescan(seq, left, right, merged) ==
  IF Len(seq) < 2 THEN seq
  ELSE IF seq[1] = left /\ seq[2] = right
       THEN Rescan(<<merged>> \o SubSeq(seq, 3, Len(seq)), left, right, merged)
       ELSE <<seq[1]>> \o Rescan(Tail(seq), left, right, merged)

RECURSIVE LeftmostFirst(_, _, _, _)
\* seq with its occurrences of (left, right) replaced by merged, the
\* leftmost first and none overlapping another.
LeftmostFirst(seq, left, right, merged) ==
  IF Len(seq) < 2 THEN seq
  ELSE IF seq[1] = left /\ seq[2] = right
       THEN <<merged>> \o LeftmostFirst(SubSeq(seq, 3, Len(seq)), left, right, merged)
       ELSE <<seq[1]>> \o LeftmostFirst(Tail(seq), left, right, merged)

\* seq holds left followed by right somewhere.
HasPair(seq, left, right) ==
  \E i \in 1..(Len(seq) - 1) : seq[i] = left /\ seq[i + 1] = right

\* C21: apply_merge, of train.rs and of encode.rs alike, rewrites every
\* sequence from left to right, looking again at the place of a
\* replacement; when merged is neither left nor right the result is the
\* leftmost-first replacement without overlap, it holds no (left, right),
\* and a sequence without (left, right) is unchanged: [1, 1, 1] with
\* (1, 1) -> 99 gives [99, 1] and [1, 2, 1, 2] with (1, 2) -> 99 gives
\* [99, 99].
C21_RewriteStep ==
  last.op = "apply_merge"
  => LET before == last.arg[1]
         left == last.arg[2]
         right == last.arg[3]
         merged == last.arg[4]
     IN  /\ Len(sequences) = Len(before)
         /\ last.ret = sequences
         /\ \A k \in DOMAIN before :
              /\ sequences[k] = Rescan(before[k], left, right, merged)
              /\ (merged # left /\ merged # right)
                 => /\ sequences[k] = LeftmostFirst(before[k], left, right, merged)
                    /\ ~HasPair(sequences[k], left, right)
              /\ ~HasPair(before[k], left, right) => sequences[k] = before[k]
         /\ (before = <<<<1, 1, 1>>>> /\ left = 1 /\ right = 1 /\ merged = 99)
            => sequences = <<<<99, 1>>>>
         /\ (before = <<<<1, 2, 1, 2>>>> /\ left = 1 /\ right = 2 /\ merged = 99)
            => sequences = <<<<99, 99>>>>

\* apply_merge rewrote a sequence with two overlapping matches and left a
\* sequence without a match alone.
C21_Witness ==
  /\ last.op = "apply_merge"
  /\ last.arg = <<<<<<1, 1, 1>>, <<1, 2, 1, 2>>>>, 1, 1, 99>>
  /\ sequences = <<<<99, 1>>, <<1, 2, 1, 2>>>>

\* C22: when train has returned, len() has reached the target or every
\* working sequence, one for each distinct pre-token, is a single id; and
\* from pre-tokens of one character each it returns the four special tokens
\* and the distinct characters, without a rule.
C22_StopCondition ==
  pc = "done"
  => /\ \/ len(vocab) >= target
        \/ \A k \in DOMAIN sequences : Len(sequences[k]) <= 1
     /\ len(vocab) < target
        => /\ Len(sequences)
                = Cardinality({pretokens[k] : k \in DOMAIN pretokens} \ {<<>>})
           /\ \A k \in DOMAIN sequences : Len(sequences[k]) = 1
     /\ (\A k \in DOMAIN pretokens : Len(pretokens[k]) = 1)
        => /\ len(vocab) = 4 + Cardinality(TrainedChars)
           /\ pairs_count(vocab) = 0

\* train returned below the target with two pre-tokens merged down to one
\* id each.
C22_Witness ==
  /\ pc = "done"
  /\ len(vocab) < target
  /\ Len(sequences) = 2
  /\ pairs_count(vocab) > 1
  /\ \A k \in DOMAIN sequences : Len(sequences[k]) = 1

\* The four bytes of n as a little-endian u32.
LittleEndian(n) == [j \in 1..4 |-> (n \div (256 ^ (j - 1))) % 256]

\* C23: the file save writes is "BPE\0", then the little-endian u32s 1,
\* len() and pairs_count(), then each token in the order of the ids as its
\* byte length and its bytes, then each rule in the order of pairs() as
\* left, right and id, and nothing else.
C23_FileLayout ==
  (file # None /\ file[1].by = "save")
  => file[1].bytes
       = <<66, 80, 69, 0>> \o LittleEndian(1)
         \o LittleEndian(len(vocab)) \o LittleEndian(pairs_count(vocab))
         \o Concat([i \in 1..len(vocab) |->
                      LittleEndian(Len(as_bytes(vocab.id_to_token[i])))
                        \o as_bytes(vocab.id_to_token[i])])
         \o Concat([k \in 1..pairs_count(vocab) |->
                      LittleEndian(pairs(vocab)[k].left)
                        \o LittleEndian(pairs(vocab)[k].right)
                        \o LittleEndian(pairs(vocab)[k].id)])

\* save wrote a vocabulary train returned with a character of two bytes and
\* two rules.
C23_Witness ==
  /\ file # None /\ file[1].by = "save"
  /\ last.op = "save"
  /\ pc = "done"
  /\ pairs_count(vocab) = 2
  /\ get_id_opt(vocab, <<233>>) # None

\* The text of a working sequence: the tokens of its ids one after the
\* other.
TextOf(v, seq) == Concat([i \in DOMAIN seq |-> v.id_to_token[seq[i] + 1]])

\* C24: when train has returned, encode of every pre-token of the input
\* that is not empty is the working sequence train holds for that
\* pre-token, and every working sequence is the encoding of its text.
C24_EncodeReplaysTraining ==
  pc = "done"
  => /\ \A k \in DOMAIN pretokens :
          pretokens[k] # <<>>
          => \E j \in DOMAIN sequences :
               /\ TextOf(vocab, sequences[j]) = pretokens[k]
               /\ encode(vocab, pretokens[k]) = sequences[j]
     /\ \A j \in DOMAIN sequences :
          encode(vocab, TextOf(vocab, sequences[j])) = sequences[j]

\* train returned at the target with two rules and a working sequence of
\* two ids still.
C24_Witness ==
  /\ pc = "done"
  /\ last.op = "return"
  /\ len(vocab) = target
  /\ pairs_count(vocab) = 2
  /\ \E j \in DOMAIN sequences : Len(sequences[j]) = 2

\* C25: from the start of train's loop to its return, every id of every
\* working sequence is below len(), the text of each working sequence is a
\* pre-token of the input, no two working sequences have the same text,
\* and every pre-token that is not empty is the text of one.
C25_TextPreserved ==
  pc \in {"loop", "done"}
  => /\ \A j \in DOMAIN sequences :
          /\ \A i \in DOMAIN sequences[j] : sequences[j][i] < len(vocab)
          /\ \E k \in DOMAIN pretokens : TextOf(vocab, sequences[j]) = pretokens[k]
     /\ \A j, h \in DOMAIN sequences :
          TextOf(vocab, sequences[j]) = TextOf(vocab, sequences[h]) => j = h
     /\ \A k \in DOMAIN pretokens :
          pretokens[k] # <<>>
          => \E j \in DOMAIN sequences : TextOf(vocab, sequences[j]) = pretokens[k]

\* train is in its loop after two merges, with a working sequence of one id
\* and another of two.
C25_Witness ==
  /\ pc = "loop"
  /\ last.op = "merge"
  /\ pairs_count(vocab) = 2
  /\ \E j, h \in DOMAIN sequences : Len(sequences[j]) = 1 /\ Len(sequences[h]) = 2

\* The total length of the working sequences.
TotalLength(seqs) == SumSeq([j \in DOMAIN seqs |-> Len(seqs[j])])

\* C26: every iteration of train's loop that does not leave it makes the
\* total length of the working sequences smaller, and every call of train
\* returns.
C26_Terminates ==
  /\ [][(pc = "loop" /\ pc' = "loop")
        => TotalLength(sequences') < TotalLength(sequences)]_vars
  /\ (pc = "loop") ~> (pc = "done")

\* train returned from the largest target after an iteration in which the
\* vocabulary did not grow.
C26_Witness ==
  /\ pc = "done"
  /\ target = LargeTarget
  /\ pairs_count(vocab) > len(vocab) - InitialSize
  /\ TotalLength(sequences) = 1

\* C27: every id encode returns with a vocabulary train returned, or with
\* one a successful load returned, is below the len() of that vocabulary.
C27_ValidIds ==
  /\ (pc = "done" /\ last.op = "encode")
     => \A i \in DOMAIN last.ret : last.ret[i] < len(vocab)
  /\ last.op = "encode_loaded"
     => \A i \in DOMAIN last.ret : last.ret[i] < len(loaded[1].value)

\* C28: with a vocabulary train returned, the rules applied again in order
\* to what encode returned leave it as it is, and no two ids next to each
\* other in it are the left and right of a rule.
C28_FixedPoint ==
  (pc = "done" /\ last.op = "encode")
  => /\ encode_pairs_from(vocab, 1, last.ret) = last.ret
     /\ \A k \in DOMAIN pairs(vocab) :
          ~HasPair(last.ret, pairs(vocab)[k].left, pairs(vocab)[k].right)

\* encode returned two ids for a text of three characters, with a
\* vocabulary train returned with two rules.
C28_Witness ==
  /\ pc = "done"
  /\ last.op = "encode"
  /\ pairs_count(vocab) = 2
  /\ Len(last.arg) = 3
  /\ Len(last.ret) = 2

RECURSIVE TokensEnd(_, _, _)
\* The position in `bytes` where n tokens stored from position pos on end,
\* by their lengths; a position past the end of `bytes` when a length is not
\* all there or reaches past the end.
TokensEnd(bytes, pos, n) ==
  IF n = 0 THEN pos
  ELSE IF pos + 4 > Len(bytes) THEN Len(bytes) + 1
  ELSE LET length == from_le_bytes(SubSeq(bytes, pos + 1, pos + 4))
       IN  IF length > Len(bytes) THEN Len(bytes) + 1
           ELSE TokensEnd(bytes, pos + 4 + length, n - 1)

\* The number of bytes of the header, the tokens and the rules that the
\* header of `bytes` declares.
DeclaredLength(bytes) ==
  IF Len(bytes) < 16 THEN 16
  ELSE LET ending == TokensEnd(bytes, 16, from_le_bytes(SubSeq(bytes, 9, 12)))
       IN  IF ending > Len(bytes) THEN ending
           ELSE ending + 12 * from_le_bytes(SubSeq(bytes, 13, 16))

\* C29: load of a file that ends before the header, the declared tokens
\* and the declared rules returns an error and no Vocabulary; when load
\* returns a Vocabulary it has read all of them and is at their end.
C29_AllOrNothing ==
  (file # None /\ loaded # None)
  => /\ Len(LoadedBytes) < DeclaredLength(LoadedBytes)
        => /\ ~loaded[1].ok
           /\ "value" \notin DOMAIN loaded[1]
     /\ loaded[1].ok
        => /\ DeclaredLength(LoadedBytes) <= Len(LoadedBytes)
           /\ loaded[1].pos = DeclaredLength(LoadedBytes)
           /\ pairs_count(loaded[1].value)
                = from_le_bytes(SubSeq(LoadedBytes, 13, 16))

\* load refused a file that ends in the middle of its only rule, after both
\* of its tokens.
C29_Witness ==
  /\ file # None /\ loaded # None
  /\ LoadedBytes \in TruncatedFiles
  /\ DeclaredLength(LoadedBytes) = Len(LoadedBytes) + 5
  /\ ~loaded[1].ok
  /\ loaded[1].err = "UnexpectedEof"

\* C30: once a command has created the native model (wvec_model_init in
\* train, wvec_checkpoint_load in embed, similar and analogy), run has
\* called wvec_model_free exactly once when it returns, with Ok or with Err.
C30_ModelFreed ==
  (pc = "returned" /\ native.created) => native.frees = 1

\* C10: a second run of train on the same pre-tokens and target returns the
\* tokens and the rules the first run returned.
C10_Deterministic ==
  (pc = "done" /\ returned # None)
  => /\ vocab.id_to_token = returned[1].id_to_token
     /\ pairs(vocab) = pairs(returned[1])

====
